---- MODULE Spec2Model ----
(***************************************************************************)
(* Model of bitwarden_to_google.py: the PasswordEntry mapping methods      *)
(* (format_uri, to_google_format), the two readers (from_csv, from_json),  *)
(* the writer (to_google_csv) and main.                                    *)
(*                                                                         *)
(* Python values are tagged records: None, Str(s), Num(n), List(l) and     *)
(* Dict(d), where d is a function whose DOMAIN is the set of keys present. *)
(* Text is a TLA+ string, handled character by character with Len, SubSeq  *)
(* and \o.                                                                 *)
(***************************************************************************)
EXTENDS Integers, Sequences, FiniteSets, TLC

VARIABLES
    pc,                   \* position of the running call
    argv,                 \* [input |-> path suffix given with -i]
    inputFile,            \* the file at args.input, as the environment holds it
    outFile,              \* the file at args.output: [exists, rows]
    entries,              \* PasswordManager.entries
    idx,                  \* position of the loop "for entry in self.entries"
    secure_note_counter,  \* the local of to_google_csv
    io,                   \* the I/O calls made so far, in order
    error,                \* the exception that ended the run, "" if none
    call                  \* the PasswordEntry method called directly, its
                          \* argument and its return value

vars == <<pc, argv, inputFile, outFile, entries, idx, secure_note_counter,
          io, error, call>>

(***************************************************************************)
(* Bounds of the model.                                                    *)
(***************************************************************************)
\* candidates in one comma-separated login_uri of the PasswordEntry runs
MaxCands == 2
\* data rows (CSV) or items (JSON) in one input file
MaxRecords == 2

(***************************************************************************)
(* Python values.                                                          *)
(***************************************************************************)
None == [t |-> "None"]
Str(s) == [t |-> "str", v |-> s]
Num(n) == [t |-> "int", v |-> n]
List(l) == [t |-> "list", v |-> l]
Dict(d) == [t |-> "dict", v |-> d]

\* bool(x), as "if x" and "if not x" evaluate it
Truthy(x) ==
    CASE x.t = "None" -> FALSE
      [] x.t = "str" -> x.v # ""
      [] x.t = "int" -> x.v # 0
      [] x.t = "list" -> Len(x.v) > 0
      [] x.t = "dict" -> DOMAIN x.v # {}

Digit(d) == SubSeq("0123456789", d + 1, d + 1)

RECURSIVE IntStr(_)
IntStr(n) == IF n < 10 THEN Digit(n) ELSE IntStr(n \div 10) \o Digit(n % 10)

\* "{x}" inside an f-string: str(x)
Format(x) ==
    CASE x.t = "None" -> "None"
      [] x.t = "str" -> x.v
      [] x.t = "int" -> IntStr(x.v)

\* d.get(key, default) on a dict d
Get(d, key, default) == IF key \in DOMAIN d.v THEN d.v[key] ELSE default

(***************************************************************************)
(* str methods used by format_uri.                                         *)
(***************************************************************************)
StartsWith(s, p) == Len(s) >= Len(p) /\ SubSeq(s, 1, Len(p)) = p

\* "c in s" for a one-character c
Contains(s, c) == \E i \in 1..Len(s) : SubSeq(s, i, i) = c

\* s.split(sep) for a one-character sep: always at least one piece
RECURSIVE Split(_, _)
Split(s, sep) ==
    IF \E i \in 1..Len(s) : SubSeq(s, i, i) = sep
    THEN LET i == CHOOSE k \in 1..Len(s) :
                      /\ SubSeq(s, k, k) = sep
                      /\ \A j \in 1..(k - 1) : SubSeq(s, j, j) # sep
         IN <<SubSeq(s, 1, i - 1)>> \o Split(SubSeq(s, i + 1, Len(s)), sep)
    ELSE <<s>>

Whitespace == {" ", "\t", "\n", "\r"}

RECURSIVE LStrip(_)
LStrip(s) ==
    IF Len(s) > 0 /\ SubSeq(s, 1, 1) \in Whitespace
    THEN LStrip(SubSeq(s, 2, Len(s)))
    ELSE s

RECURSIVE RStrip(_)
RStrip(s) ==
    IF Len(s) > 0 /\ SubSeq(s, Len(s), Len(s)) \in Whitespace
    THEN RStrip(SubSeq(s, 1, Len(s) - 1))
    ELSE s

\* s.strip()
Strip(s) == RStrip(LStrip(s))

\* s.replace(old, new): every non-overlapping occurrence, left to right
RECURSIVE Replace(_, _, _)
Replace(s, old, new) ==
    IF Len(s) = 0 THEN ""
    ELSE IF StartsWith(s, old)
         THEN new \o Replace(SubSeq(s, Len(old) + 1, Len(s)), old, new)
         ELSE SubSeq(s, 1, 1) \o Replace(SubSeq(s, 2, Len(s)), old, new)

\* urlparse(uri).netloc for a uri that starts with http:// or https://: what
\* follows the "//" up to the first "/", "?" or "#".  urlparse also drops
\* tabs and newlines and raises ValueError on an unbalanced "[" or "]"; no
\* login_uri of the runs below holds one of these characters.
RECURSIVE UpToDelim(_)
UpToDelim(s) ==
    IF Len(s) = 0 \/ SubSeq(s, 1, 1) \in {"/", "?", "#"} THEN ""
    ELSE SubSeq(s, 1, 1) \o UpToDelim(SubSeq(s, 2, Len(s)))

Netloc(uri) ==
    LET i == CHOOSE k \in 1..Len(uri) : SubSeq(uri, k, k) = ":"
    IN IF SubSeq(uri, i + 1, i + 2) = "//"
       THEN UpToDelim(SubSeq(uri, i + 3, Len(uri)))
       ELSE ""

(***************************************************************************)
(* PasswordEntry: a record with the five fields of the dataclass.          *)
(***************************************************************************)
PasswordEntry(name, login_uri, login_username, login_password, notes) ==
    [name |-> name, login_uri |-> login_uri, login_username |-> login_username,
     login_password |-> login_password, notes |-> notes]

SecureNotesUrl == "https://mybitwardensecurenotesdonotdelete.com"

\* format_uri's loop with the two checks of a candidate in the other order
RECURSIVE format_uri_loop_dot_first(_, _)
format_uri_loop_dot_first(uris, login_uri) ==
    IF Len(uris) = 0
    THEN Replace(login_uri, "androidapp://", "android://@")
    ELSE LET uri == Head(uris)
         IN IF Contains(uri, ".") /\ ~StartsWith(uri, "androidapp://")
            THEN "https://" \o Strip(uri)
            ELSE IF StartsWith(uri, "http://") \/ StartsWith(uri, "https://")
                 THEN "https://" \o Netloc(uri)
                 ELSE format_uri_loop_dot_first(Tail(uris), login_uri)

\* format_uri's loop with the fallback rewriting only a leading androidapp://
RECURSIVE format_uri_loop_first_only(_, _)
format_uri_loop_first_only(uris, login_uri) ==
    IF Len(uris) = 0
    THEN IF StartsWith(login_uri, "androidapp://")
         THEN "android://@" \o SubSeq(login_uri, 14, Len(login_uri))
         ELSE login_uri
    ELSE LET uri == Head(uris)
         IN IF StartsWith(uri, "http://") \/ StartsWith(uri, "https://")
            THEN "https://" \o Netloc(uri)
            ELSE IF Contains(uri, ".") /\ ~StartsWith(uri, "androidapp://")
                 THEN "https://" \o Strip(uri)
                 ELSE format_uri_loop_first_only(Tail(uris), login_uri)

\* the loop "for uri in uris" of format_uri, with its two returns, and the
\* return after the loop
RECURSIVE format_uri_loop(_, _)
format_uri_loop(uris, login_uri) ==
    IF Len(uris) = 0
    THEN Replace(login_uri, "androidapp://", "android://@")
    ELSE LET uri == Head(uris)
         IN IF StartsWith(uri, "http://") \/ StartsWith(uri, "https://")
            THEN "https://" \o Netloc(uri)
            ELSE IF Contains(uri, ".") /\ ~StartsWith(uri, "androidapp://")
                 THEN "https://" \o Strip(uri)
                 ELSE format_uri_loop(Tail(uris), login_uri)

\* format_uri without the secure-notes URL for an empty login_uri
format_uri_no_sentinel(self) ==
    IF ~Truthy(self.login_uri)
    THEN ""
    ELSE format_uri_loop(Split(self.login_uri.v, ","), self.login_uri.v)

format_uri(self) ==
    IF ~Truthy(self.login_uri)
    THEN SecureNotesUrl
    ELSE format_uri_loop(Split(self.login_uri.v, ","), self.login_uri.v)

\* to_google_format without the placeholder for an empty password
to_google_format_raw_password(self, counter) ==
    LET url == format_uri(self)
        username == IF Truthy(self.login_username)
                    THEN self.login_username
                    ELSE Str(Format(self.name) \o " - row:" \o Format(counter))
    IN [name |-> self.name, url |-> Str(url), username |-> username,
        password |-> IF self.login_password = None THEN Str("")
                     ELSE self.login_password,
        note |-> self.notes]

to_google_format(self, counter) ==
    LET url == format_uri(self)
        password == IF Truthy(self.login_password)
                    THEN self.login_password
                    ELSE Str("secure_note_password")
        username == IF Truthy(self.login_username)
                    THEN self.login_username
                    ELSE Str(Format(self.name) \o " - row:" \o Format(counter))
    IN [name |-> self.name, url |-> Str(url), username |-> username,
        password |-> password, note |-> self.notes]

(***************************************************************************)
(* Inputs of the direct PasswordEntry calls: login_uri values made of up   *)
(* to MaxCands comma-separated candidates, and entries with every          *)
(* combination of empty, None and non-empty fields.                        *)
(***************************************************************************)
Schemes == {"", "http://", "https://", "androidapp://"}

Rests == {"", "example.com", "example.com/login", "com.example", "localhost:8080"}

Candidates ==
    {s \o r : s \in Schemes, r \in Rests}
        \cup {" example.com ", " http://example.com", " androidapp://com.example"}

RECURSIVE Join(_, _)
Join(parts, sep) ==
    IF Len(parts) = 1 THEN parts[1]
    ELSE parts[1] \o sep \o Join(Tail(parts), sep)

UriInputs ==
    {Join(cs, ",") : cs \in UNION {[1..n -> Candidates] : n \in 1..MaxCands}}

EntryInputs ==
    {PasswordEntry(Str("Foo"), Str(u), Str("bob"), Str("pw"), Str("")) :
        u \in UriInputs}
    \cup
    {PasswordEntry(n, u, un, p, Str("n")) :
        n \in {Str("Foo"), Str(""), None},
        u \in {Str(""), None, Str("example.com"), Str("androidapp://com.example")},
        un \in {Str(""), None, Str("bob")},
        p \in {Str(""), None, Str("pw")}}

CounterInputs == {None} \cup {Num(k) : k \in 1..MaxRecords} \cup {Num(10)}

NoCall == [method |-> "", arg |-> None, result |-> None]

\* the parts of the state a direct PasswordEntry call does not touch
Idle ==
    /\ argv = [input |-> ""]
    /\ inputFile = [kind |-> "none"]
    /\ outFile = [exists |-> FALSE, rows |-> <<>>]
    /\ idx = 0
    /\ secure_note_counter = 0
    /\ io = <<>>
    /\ error = ""

InitEntry ==
    /\ pc = "entry"
    /\ entries \in {<<e>> : e \in EntryInputs}
    /\ call = NoCall
    /\ Idle

CallFormatUri ==
    /\ pc = "entry"
    /\ pc' = "returned"
    /\ call' = [method |-> "format_uri", arg |-> None,
                result |-> Str(format_uri(entries[1]))]
    /\ UNCHANGED <<argv, inputFile, outFile, entries, idx, secure_note_counter,
                   io, error>>

CallToGoogleFormat ==
    /\ pc = "entry"
    /\ \E c \in CounterInputs :
          call' = [method |-> "to_google_format", arg |-> c,
                   result |-> to_google_format(entries[1], c)]
    /\ pc' = "returned"
    /\ UNCHANGED <<argv, inputFile, outFile, entries, idx, secure_note_counter,
                   io, error>>

NextEntry == CallFormatUri \/ CallToGoogleFormat

SpecEntry == InitEntry /\ [][NextEntry]_vars

(***************************************************************************)
(* The input file.  A CSV file is its header row and its data rows, each a *)
(* sequence of cells; a JSON file is either not valid JSON or the value    *)
(* json.load returns.                                                      *)
(***************************************************************************)
\* csv.DictReader: one dict per non-blank data row, keyed by the header's
\* columns; a row with fewer cells than the header has None for the rest
\* (no row of the runs below has more cells than the header)
DictReaderRow(header, cells) ==
    Dict([k \in {header[i] : i \in 1..Len(header)} |->
            LET i == CHOOSE j \in 1..Len(header) : header[j] = k
            IN IF i <= Len(cells) THEN Str(cells[i]) ELSE None])

RECURSIVE DictReader(_, _)
DictReader(header, rows) ==
    IF Len(rows) = 0 THEN <<>>
    ELSE IF Len(Head(rows)) = 0
         THEN DictReader(header, Tail(rows))
         ELSE <<DictReaderRow(header, Head(rows))>> \o DictReader(header, Tail(rows))

\* the PasswordEntry from_csv builds from one row
from_csv_entry(row) ==
    PasswordEntry(Get(row, "name", Str("")),
                  Get(row, "login_uri", Str("")),
                  Get(row, "login_username", Str("")),
                  Get(row, "login_password", Str("")),
                  Get(row, "notes", Str("")))

\* from_csv: opened says whether file_path.open succeeds
from_csv(file, opened) ==
    IF ~opened THEN [raised |-> "OSError: input", entries |-> <<>>]
    ELSE LET rows == DictReader(file.header, file.rows)
         IN [raised |-> "",
             entries |-> [i \in 1..Len(rows) |-> from_csv_entry(rows[i])]]

\* the PasswordEntry from_json builds from one item, or the exception the
\* item raises
from_json_entry(item) ==
    IF Get(item, "type", None) = Num(1)
    THEN LET login == Get(item, "login", Dict(<<>>))
         IN IF login.t # "dict"
            THEN [raised |-> "AttributeError"]
            ELSE LET uris == Get(login, "uris", List(<<>>))
                 IN IF Truthy(uris) /\ "uri" \notin DOMAIN uris.v[1].v
                    THEN [raised |-> "KeyError: 'uri'"]
                    ELSE [raised |-> "",
                          entry |-> PasswordEntry(
                              Get(item, "name", Str("")),
                              IF Truthy(uris) THEN uris.v[1].v["uri"] ELSE Str(""),
                              Get(login, "username", Str("")),
                              Get(login, "password", Str("")),
                              Get(item, "notes", Str("")))]
    ELSE IF Get(item, "type", None) = Num(4)
    THEN LET identity == Get(item, "identity", Dict(<<>>))
         IN IF identity.t # "dict"
            THEN [raised |-> "AttributeError"]
            ELSE LET notes ==
                         "Name: " \o Format(Get(identity, "firstName", Str("")))
                             \o " " \o Format(Get(identity, "lastName", Str("")))
                             \o "\n"
                         \o "Phone: " \o Format(Get(identity, "phone", Str(""))) \o "\n"
                         \o "Email: " \o Format(Get(identity, "email", Str(""))) \o "\n"
                         \o "Address: " \o Format(Get(identity, "address1", Str("")))
                             \o "\n"
                         \o "Company: " \o Format(Get(identity, "company", Str("")))
                             \o "\n"
                         \o "Notes: " \o Format(Get(item, "notes", Str("")))
                 IN [raised |-> "",
                     entry |-> PasswordEntry(Get(item, "name", Str("")),
                                             Str(""), Str(""), Str(""), Str(notes))]
    ELSE [raised |-> "",
          entry |-> PasswordEntry(Get(item, "name", Str("")),
                                  Str(""), Str(""), Str(""),
                                  Get(item, "notes", Str("")))]

\* from_json: the first exception ends it; entries are returned only when
\* every item was read
from_json(file, opened) ==
    IF ~opened THEN [raised |-> "OSError: input", entries |-> <<>>]
    ELSE IF ~file.valid THEN [raised |-> "JSONDecodeError", entries |-> <<>>]
    ELSE IF "items" \notin DOMAIN file.data.v
         THEN [raised |-> "KeyError: 'items'", entries |-> <<>>]
    ELSE LET items == file.data.v["items"].v
             read == [i \in 1..Len(items) |-> from_json_entry(items[i])]
         IN IF \E i \in 1..Len(items) : read[i].raised # ""
            THEN LET i == CHOOSE k \in 1..Len(items) :
                              /\ read[k].raised # ""
                              /\ \A j \in 1..(k - 1) : read[j].raised = ""
                 IN [raised |-> read[i].raised, entries |-> <<>>]
            ELSE [raised |-> "", entries |-> [i \in 1..Len(items) |-> read[i].entry]]

(***************************************************************************)
(* to_google_csv and main.                                                 *)
(***************************************************************************)
fieldnames == <<"name", "url", "username", "password", "note">>

\* the row csv.DictWriter.writeheader writes
HeaderRow == [k \in {fieldnames[i] : i \in 1..Len(fieldnames)} |-> k]

\* the row csv.DictWriter.writerow writes for a dict: None is written as the
\* empty string, anything else as its str()
WriterRow(d) ==
    [k \in {fieldnames[i] : i \in 1..Len(fieldnames)} |->
        IF d[k] = None THEN "" ELSE Format(d[k])]

\* the test of the loop of to_google_csv
IsSecureNote(entry) == ~Truthy(entry.login_uri) /\ ~Truthy(entry.login_username)

\* Path(p).suffix: the last "." of the name and what follows it, when the
\* "." is neither the first nor the last character of the name
RECURSIVE LastIndexOf(_, _)
LastIndexOf(s, c) ==
    IF Len(s) = 0 THEN 0
    ELSE IF SubSeq(s, Len(s), Len(s)) = c THEN Len(s)
         ELSE LastIndexOf(SubSeq(s, 1, Len(s) - 1), c)

Suffix(path) ==
    LET name == SubSeq(path, LastIndexOf(path, "/") + 1, Len(path))
        i == LastIndexOf(name, ".")
    IN IF 1 < i /\ i < Len(name) THEN SubSeq(name, i, Len(name)) ELSE ""

Upper == "ABCDEFGHIJKLMNOPQRSTUVWXYZ"

Lowercase == "abcdefghijklmnopqrstuvwxyz"

\* s.lower()
RECURSIVE Lower(_)
Lower(s) ==
    IF Len(s) = 0 THEN ""
    ELSE LET c == SubSeq(s, 1, 1)
         IN (IF \E i \in 1..26 : SubSeq(Upper, i, i) = c
             THEN LET i == CHOOSE k \in 1..26 : SubSeq(Upper, k, k) = c
                  IN SubSeq(Lowercase, i, i)
             ELSE c) \o Lower(SubSeq(s, 2, Len(s)))

\* the dispatch of main with from_csv as the fallback for any other extension
SelectReader_csv_default(input) ==
    IF Lower(Suffix(input)) = ".json" THEN "from_json" ELSE "from_csv"

\* the reader main selects for an input path: "" when it raises ValueError
SelectReader(input) ==
    LET file_extension == Lower(Suffix(input))
    IN IF file_extension = ".csv" THEN "from_csv"
       ELSE IF file_extension = ".json" THEN "from_json"
       ELSE ""

\* main going on to to_google_csv whatever the reader did
AfterReader_swallow(r) ==
    [pc |-> "to_google_csv", error |-> "", entries |-> r.entries]

\* what main does with what the reader did: an exception ends the run, a
\* returned manager goes to to_google_csv
AfterReader(r) ==
    IF r.raised # ""
    THEN [pc |-> "raised", error |-> r.raised, entries |-> <<>>]
    ELSE [pc |-> "to_google_csv", error |-> "", entries |-> r.entries]

(***************************************************************************)
(* Inputs of main: the -i path, the input file and the file already at the *)
(* output path, if any.                                                    *)
(***************************************************************************)
\* a key left out of a dict under construction
Absent == [t |-> "absent"]

MkDict(f) == Dict([k \in {x \in DOMAIN f : f[x] # Absent} |-> f[k]])

CsvHeaders ==
    {<<"name", "login_uri", "login_username", "login_password", "notes">>,
     <<"notes", "name">>}

CellValues(column) ==
    CASE column = "name" -> {"Foo"}
      [] column = "login_uri" -> {"", "example.com"}
      [] column = "login_username" -> {"", "bob"}
      [] column = "login_password" -> {"", "pw"}
      [] column = "notes" -> {"", "n"}

\* complete rows, rows cut short after the first or second cell, blank lines
CsvRows(header) ==
    LET cells == UNION {CellValues(header[i]) : i \in 1..Len(header)}
        full == {r \in [1..Len(header) -> cells] :
                    \A i \in 1..Len(header) : r[i] \in CellValues(header[i])}
    IN {SubSeq(r, 1, k) : r \in full, k \in {0, 1, 2, Len(header)}}

SeqsUpTo(S, n) == UNION {[1..k -> S] : k \in 0..n}

CsvFiles ==
    UNION {{[kind |-> "csv", header |-> h, rows |-> rows] :
                rows \in SeqsUpTo(CsvRows(h), MaxRecords)} : h \in CsvHeaders}

UrisValues ==
    {Absent, List(<<>>),
     List(<<Dict([uri |-> Str("https://example.com/login")])>>),
     List(<<Dict(<<>>)>>)}

LoginItems ==
    {MkDict([type |-> Num(1), name |-> Str("Foo"), notes |-> Str("n"),
             login |-> MkDict([uris |-> u, username |-> un, password |-> Str("pw")])]) :
        u \in UrisValues, un \in {Absent, Str("bob")}}
    \cup
    {MkDict([type |-> Num(1), name |-> n, notes |-> Absent, login |-> l]) :
        n \in {Absent, None},
        l \in {Absent, None,
               Dict([uris |-> None, username |-> None, password |-> None]),
               Dict([uris |-> List(<<Dict([uri |-> None])>>)])}}

IdentityItems ==
    {MkDict([type |-> Num(4), name |-> Str("Me"), notes |-> Absent, identity |-> i]) :
        i \in {Absent, None,
               Dict([firstName |-> Str("Jane"), lastName |-> Str("Doe")])}}

OtherItems ==
    {MkDict([type |-> t, name |-> Str("Card"), notes |-> Str("n")]) :
        t \in {Absent, Num(2)}}

JsonItems == LoginItems \cup IdentityItems \cup OtherItems

JsonFiles ==
    {[kind |-> "json", valid |-> FALSE, data |-> None],
     [kind |-> "json", valid |-> TRUE, data |-> Dict([folders |-> List(<<>>)])]}
    \cup
    {[kind |-> "json", valid |-> TRUE, data |-> Dict([items |-> List(items)])] :
        items \in SeqsUpTo(JsonItems, MaxRecords)}

\* the -i paths, each with the files it may name
MainInputs ==
    {<<"vault.CSV", f>> : f \in CsvFiles}
    \cup {<<"export/vault.json", f>> : f \in JsonFiles}
    \cup {<<p, f>> : p \in {"vault.txt", "vault", "my.vault/export", ".csv"},
                     f \in {[kind |-> "csv", header |-> <<"notes", "name">>,
                             rows |-> <<<<"n", "Foo">>>>],
                            [kind |-> "json", valid |-> TRUE,
                             data |-> Dict([items |-> List(<<>>)])]}}

NoFile == [exists |-> FALSE, rows |-> <<>>]

\* what an earlier run left at the output path
OldFile ==
    [exists |-> TRUE,
     rows |-> <<HeaderRow, WriterRow([name |-> Str("Old"), url |-> Str("https://old.example"),
                                      username |-> Str("old"), password |-> Str("old"),
                                      note |-> None])>>]

Init ==
    /\ pc = "main"
    /\ \E in \in MainInputs :
          /\ argv = [input |-> in[1]]
          /\ inputFile = in[2]
    /\ outFile \in {NoFile, OldFile}
    /\ entries = <<>>
    /\ idx = 0
    /\ secure_note_counter = 0
    /\ io = <<>>
    /\ error = ""
    /\ call = NoCall

(***************************************************************************)
(* main, one action per step.  The reader runs as one step: it returns or  *)
(* raises before main goes on.  Whether an open() succeeds is the          *)
(* environment's choice at the time of the call.                           *)
(***************************************************************************)
\* file_extension is ".csv": manager = PasswordManager.from_csv(input_path)
MainFromCsv ==
    /\ pc = "main"
    /\ SelectReader(argv.input) = "from_csv"
    /\ \E opened \in BOOLEAN :
          LET next == AfterReader(from_csv(inputFile, opened))
          IN /\ pc' = next.pc
             /\ error' = next.error
             /\ entries' = next.entries
    /\ io' = Append(io, "open input")
    /\ UNCHANGED <<argv, inputFile, outFile, idx, secure_note_counter, call>>

\* file_extension is ".json": manager = PasswordManager.from_json(input_path)
MainFromJson ==
    /\ pc = "main"
    /\ SelectReader(argv.input) = "from_json"
    /\ \E opened \in BOOLEAN :
          LET next == AfterReader(from_json(inputFile, opened))
          IN /\ pc' = next.pc
             /\ error' = next.error
             /\ entries' = next.entries
    /\ io' = Append(io, "open input")
    /\ UNCHANGED <<argv, inputFile, outFile, idx, secure_note_counter, call>>

\* any other extension: raise ValueError
MainUnsupported ==
    /\ pc = "main"
    /\ SelectReader(argv.input) = ""
    /\ pc' = "raised"
    /\ error' = "ValueError"
    /\ UNCHANGED <<argv, inputFile, outFile, entries, idx, secure_note_counter,
                   io, call>>

\* to_google_csv up to the loop: the counter is set, the output file is opened
\* for writing (created or truncated) and the header row is written
OpenOutput ==
    /\ pc = "to_google_csv"
    /\ secure_note_counter' = 1
    /\ io' = Append(io, "open output")
    /\ \E opened \in BOOLEAN :
          IF opened
          THEN /\ outFile' = [exists |-> TRUE, rows |-> <<HeaderRow>>]
               /\ idx' = 1
               /\ pc' = "writing"
               /\ error' = error
          ELSE /\ outFile' = outFile
               /\ idx' = idx
               /\ pc' = "raised"
               /\ error' = "OSError: output"
    /\ UNCHANGED <<argv, inputFile, entries, call>>

\* the secure-note turn of the loop without "secure_note_counter += 1"
WriteSecureNote_no_increment ==
    /\ pc = "writing"
    /\ idx <= Len(entries)
    /\ IsSecureNote(entries[idx])
    /\ outFile' = [outFile EXCEPT !.rows =
          Append(@, WriterRow(to_google_format(entries[idx], Num(secure_note_counter))))]
    /\ idx' = idx + 1
    /\ UNCHANGED <<pc, argv, inputFile, entries, io, error, call, secure_note_counter>>

\* one turn of the loop, for an entry with neither login_uri nor login_username
WriteSecureNote ==
    /\ pc = "writing"
    /\ idx <= Len(entries)
    /\ IsSecureNote(entries[idx])
    /\ outFile' = [outFile EXCEPT !.rows =
          Append(@, WriterRow(to_google_format(entries[idx], Num(secure_note_counter))))]
    /\ secure_note_counter' = secure_note_counter + 1
    /\ idx' = idx + 1
    /\ UNCHANGED <<pc, argv, inputFile, entries, io, error, call>>

\* the other turn of the loop without its writerow
WriteLogin_dropped ==
    /\ pc = "writing"
    /\ idx <= Len(entries)
    /\ ~IsSecureNote(entries[idx])
    /\ idx' = idx + 1
    /\ UNCHANGED <<pc, argv, inputFile, entries, io, error, call,
                   secure_note_counter, outFile>>

\* one turn of the loop, for any other entry: to_google_format() is called
\* without a counter, so with the default None
WriteLogin ==
    /\ pc = "writing"
    /\ idx <= Len(entries)
    /\ ~IsSecureNote(entries[idx])
    /\ outFile' = [outFile EXCEPT !.rows =
          Append(@, WriterRow(to_google_format(entries[idx], None)))]
    /\ idx' = idx + 1
    /\ UNCHANGED <<pc, argv, inputFile, entries, io, error, call,
                   secure_note_counter>>

\* the loop ends, the file is closed and main prints the confirmation
PrintSaved ==
    /\ pc = "writing"
    /\ idx > Len(entries)
    /\ io' = Append(io, "print")
    /\ pc' = "done"
    /\ UNCHANGED <<argv, inputFile, outFile, entries, idx, secure_note_counter,
                   error, call>>

Next ==
    \/ MainFromCsv
    \/ MainFromJson
    \/ MainUnsupported
    \/ OpenOutput
    \/ WriteSecureNote
    \/ WriteLogin
    \/ PrintSaved

Spec == Init /\ [][Next]_vars

(***************************************************************************)
(* Claims about format_uri and to_google_format, checked under SpecEntry.  *)
(***************************************************************************)
\* the two checks format_uri makes of one candidate, as the specification
\* words them
StartsWithHttp(c) == StartsWith(c, "http://") \/ StartsWith(c, "https://")

DottedNotAndroid(c) == Contains(c, ".") /\ ~StartsWith(c, "androidapp://")

Matches(c) == StartsWithHttp(c) \/ DottedNotAndroid(c)

\* n is the network location of c: c is a scheme, "//", n, and then nothing
\* or a path, query or fragment
IsNetlocOf(n, c) ==
    \E scheme \in {"http://", "https://"} :
        /\ StartsWith(c, scheme \o n)
        /\ \A d \in {"/", "?", "#"} : ~Contains(n, d)
        /\ \/ Len(c) = Len(scheme) + Len(n)
           \/ SubSeq(c, Len(scheme) + Len(n) + 1, Len(scheme) + Len(n) + 1)
                  \in {"/", "?", "#"}

\* s with the first Len(p) characters removed
After(s, p) == SubSeq(s, Len(p) + 1, Len(s))

Occurs(s, p) == \E i \in 1..Len(s) : StartsWith(SubSeq(s, i, Len(s)), p)

FormatUriReturned == pc = "returned" /\ call.method = "format_uri"

FormatUriOf(u, r) ==
    FormatUriReturned /\ entries[1].login_uri = Str(u) => call.result = Str(r)

\* C4: for a non-empty login_uri, the first comma-separated candidate that
\* starts with http:// or https://, or that contains "." and does not start
\* with androidapp://, decides the result whatever follows it: "https://" and
\* its network location when it starts with http:// or https:// (checked
\* first), "https://" and the stripped candidate otherwise.
C4_FirstMatchWins ==
    /\ FormatUriReturned /\ Truthy(entries[1].login_uri) =>
          LET cands == Split(entries[1].login_uri.v, ",")
              r == call.result.v
          IN \A i \in 1..Len(cands) :
                (Matches(cands[i]) /\ \A j \in 1..(i - 1) : ~Matches(cands[j])) =>
                    /\ StartsWith(r, "https://")
                    /\ IF StartsWithHttp(cands[i])
                       THEN IsNetlocOf(After(r, "https://"), cands[i])
                       ELSE /\ After(r, "https://") = Strip(cands[i])
                            /\ Occurs(cands[i], After(r, "https://"))
                            /\ ~StartsWith(After(r, "https://"), " ")
    /\ FormatUriOf("https://example.com/login,androidapp://com.example",
                   "https://example.com")
    /\ FormatUriOf("example.com", "https://example.com")
    /\ FormatUriOf("androidapp://com.example,example.com/login",
                   "https://example.com/login")
    /\ FormatUriOf("http://localhost:8080,com.example", "https://localhost:8080")

\* a later candidate would have given another result, and the first match won
C4_Witness ==
    /\ FormatUriReturned
    /\ entries[1].login_uri = Str("http://localhost:8080,com.example")
    /\ call.result = Str("https://localhost:8080")

\* C5: for a non-empty login_uri none of whose candidates starts with http://
\* or https:// or contains "." without starting with androidapp://, format_uri
\* returns the whole login_uri, commas included, with every androidapp://
\* replaced by android://@.
C5_FallbackReplacesAndroidApp ==
    /\ FormatUriReturned /\ Truthy(entries[1].login_uri) =>
          LET u == entries[1].login_uri.v
              cands == Split(u, ",")
              r == call.result.v
          IN (\A i \in 1..Len(cands) : ~Matches(cands[i])) =>
                /\ r = Replace(u, "androidapp://", "android://@")
                /\ ~Occurs(r, "androidapp://")
                /\ Len(r) = Len(u) - 2 * Cardinality(
                       {i \in 1..Len(u) : StartsWith(SubSeq(u, i, Len(u)), "androidapp://")})
                /\ Len(Split(r, ",")) = Len(cands)
    /\ FormatUriOf("androidapp://com.example", "android://@com.example")
    /\ FormatUriOf("androidapp://com.example,androidapp://",
                   "android://@com.example,android://@")
    /\ FormatUriOf("localhost:8080", "localhost:8080")

\* two candidates, neither matching, both rewritten
C5_Witness ==
    /\ FormatUriReturned
    /\ entries[1].login_uri = Str("androidapp://com.example,androidapp://")
    /\ call.result = Str("android://@com.example,android://@")

\* C10: whatever the fields of the entry and whatever counter is passed, the
\* row to_google_format returns has a non-empty url, a non-empty username and
\* a non-empty password, and format_uri never returns the empty string.
C10_RowFieldsNonEmpty ==
    /\ pc = "returned" /\ call.method = "to_google_format" =>
          \A k \in {"url", "username", "password"} :
              call.result[k].t = "str" /\ Len(call.result[k].v) > 0
    /\ FormatUriReturned => call.result.t = "str" /\ Len(call.result.v) > 0

\* every field of the entry empty, no counter passed
C10_Witness ==
    /\ pc = "returned"
    /\ call.method = "to_google_format"
    /\ call.arg = None
    /\ entries[1] = PasswordEntry(Str(""), Str(""), Str(""), Str(""), Str("n"))
    /\ call.result.username = Str(" - row:None")
    /\ call.result.password = Str("secure_note_password")
    /\ call.result.url = Str(SecureNotesUrl)

(***************************************************************************)
(* Claims about main, the readers and to_google_csv, checked under Spec.   *)
(***************************************************************************)
\* a raw field that is empty: the empty string, or no string at all
IsEmpty(v) == v = None \/ v = Str("")

BothEmpty(entry) == IsEmpty(entry.login_uri) /\ IsEmpty(entry.login_username)

\* the text of a field in the output file
Text(v) == IF v.t = "str" THEN v.v ELSE ""

InWriter == pc \in {"writing", "done"}

\* the i-th data row written so far
DataRow(i) == outFile.rows[i + 1]

\* how many of the first i entries have neither uri nor username
SecureNotesUpTo(i) == Cardinality({j \in 1..i : BothEmpty(entries[j])})

UntouchedOutput == outFile \in {NoFile, OldFile}

Did(what) == \E i \in 1..Len(io) : io[i] = what

\* C1: the secure-note counter starts at 1 and is incremented once for each
\* entry whose uri and username are both empty and for no other entry: the
\* k-th such entry, in input order, is written with the username
\* "{name} - row:k".
C1_CounterCountsSecureNotes ==
    InWriter =>
        /\ secure_note_counter = 1 + SecureNotesUpTo(idx - 1)
        /\ \A i \in 1..(idx - 1) :
              BothEmpty(entries[i]) =>
                  DataRow(i).username =
                      Format(entries[i].name) \o " - row:" \o IntStr(SecureNotesUpTo(i))

\* two secure notes in a row: counters 1 and 2
C1_Witness ==
    /\ pc = "done"
    /\ Len(entries) = 2
    /\ BothEmpty(entries[1]) /\ BothEmpty(entries[2])
    /\ DataRow(1).username = "Foo - row:1"
    /\ DataRow(2).username = "Foo - row:2"

\* C2: an entry with a non-empty uri or a non-empty username is never written
\* with a synthesized "{name} - row..." username: its output username is its
\* original username.
C2_NoPlaceholderForLogins ==
    InWriter =>
        \A i \in 1..(idx - 1) :
            ~BothEmpty(entries[i]) =>
                /\ DataRow(i).username = Text(entries[i].login_username)
                /\ ~StartsWith(DataRow(i).username, Format(entries[i].name) \o " - row")

\* the records of the input file, as main's reader is to see them: the
\* non-blank data rows of a CSV file, the items of a JSON file
RECURSIVE NonBlank(_)
NonBlank(rows) ==
    IF Len(rows) = 0 THEN <<>>
    ELSE (IF Head(rows) = <<>> THEN <<>> ELSE <<Head(rows)>>) \o NonBlank(Tail(rows))

InputRecords ==
    IF inputFile.kind = "csv" THEN NonBlank(inputFile.rows)
    ELSE inputFile.data.v["items"].v

\* the name of an input record, "" when it has none
InputName(r) ==
    IF inputFile.kind = "csv"
    THEN IF \E i \in 1..Len(r) : inputFile.header[i] = "name"
         THEN r[CHOOSE i \in 1..Len(r) : inputFile.header[i] = "name"]
         ELSE ""
    ELSE IF "name" \in DOMAIN r.v THEN Text(r.v["name"]) ELSE ""

\* C3: when the reader returned n records, to_google_csv writes the header
\* row and then exactly n data rows, the i-th for the i-th record: its name
\* and note are the record's, its url the record's formatted uri.
C3_OneRowPerRecordInOrder ==
    /\ InWriter => Len(outFile.rows) = idx /\ outFile.rows[1] = HeaderRow
    /\ pc = "done" =>
          /\ Len(entries) = Len(InputRecords)
          /\ Len(outFile.rows) = 1 + Len(InputRecords)
          /\ \A i \in 1..Len(InputRecords) :
                /\ DataRow(i).name = InputName(InputRecords[i])
                /\ DataRow(i).name = Text(entries[i].name)
                /\ DataRow(i).note = Text(entries[i].notes)
                /\ DataRow(i).url = format_uri(entries[i])
                /\ IsEmpty(entries[i].login_username)
                      \/ DataRow(i).username = entries[i].login_username.v

\* a login and then a secure note, written in that order
C3_Witness ==
    /\ pc = "done"
    /\ inputFile.kind = "json"
    /\ Len(entries) = 2
    /\ DataRow(1).name = "Foo" /\ DataRow(1).username = "bob"
    /\ DataRow(1).url = "https://example.com"
    /\ DataRow(2).name = "Me"
    /\ DataRow(2).note = "Name: Jane Doe\nPhone: \nEmail: \nAddress: \nCompany: \nNotes: "

\* C6: an entry with an empty uri is written with the secure-notes URL; an
\* entry whose uri, username and password are all empty is written with that
\* URL, the password "secure_note_password" and the username
\* "{name} - row:{k}", k being the secure-note counter (one CSV row with name
\* Foo and nothing else gives "Foo - row:1").
C6_SecureNoteRow ==
    /\ InWriter =>
          \A i \in 1..(idx - 1) :
              /\ IsEmpty(entries[i].login_uri) =>
                    DataRow(i).url = "https://mybitwardensecurenotesdonotdelete.com"
              /\ (BothEmpty(entries[i]) /\ IsEmpty(entries[i].login_password)) =>
                    /\ DataRow(i).url = "https://mybitwardensecurenotesdonotdelete.com"
                    /\ DataRow(i).password = "secure_note_password"
                    /\ DataRow(i).username =
                           Format(entries[i].name) \o " - row:"
                               \o IntStr(SecureNotesUpTo(i))
    /\ (/\ pc = "done"
        /\ inputFile.kind = "csv"
        /\ Len(inputFile.header) = 5
        /\ inputFile.rows = <<<<"Foo", "", "", "", "">>>>) =>
          outFile.rows =
              <<HeaderRow,
                [name |-> "Foo",
                 url |-> "https://mybitwardensecurenotesdonotdelete.com",
                 username |-> "Foo - row:1",
                 password |-> "secure_note_password",
                 note |-> ""]>>

\* the one-row CSV file of the specification's round trip
C6_Witness ==
    /\ pc = "done"
    /\ inputFile.kind = "csv"
    /\ inputFile.rows = <<<<"Foo", "", "", "", "">>>>
    /\ DataRow(1).username = "Foo - row:1"
    /\ DataRow(1).url = SecureNotesUrl

\* C7: when the extension of the input path, lower-cased, is neither .csv nor
\* .json, main raises before any I/O: the input is never opened, no reader
\* runs, and the output file is neither created nor written.
C7_UnsupportedExtensionNoIO ==
    (\/ Lower(Suffix(argv.input)) \notin {".csv", ".json"}
     \/ argv.input \in {"vault.txt", "vault"}) =>
        /\ pc \in {"main", "raised"}
        /\ pc = "raised" => error = "ValueError"
        /\ io = <<>>
        /\ entries = <<>>
        /\ UntouchedOutput

C7_Witness ==
    /\ pc = "raised"
    /\ error = "ValueError"
    /\ argv.input = "vault.txt"
    /\ outFile = OldFile
    /\ io = <<>>

\* C8: a well-formed record with missing fields (absent columns, too few
\* cells, an absent or null login, uri key, username, password, name or
\* notes) never makes the reader raise, and each missing field is the empty
\* string in the entry read.
C8_MissingFieldsAreEmptyStrings ==
    /\ error \notin {"AttributeError", "KeyError: 'uri'"}
    /\ \A i \in 1..Len(entries) :
          \A f \in {"name", "login_uri", "login_username", "login_password", "notes"} :
              entries[i][f].t = "str"

\* the input is such that its reader raises: a JSON file that is not valid
\* JSON, or has no "items"
ReaderMustRaise ==
    /\ Lower(Suffix(argv.input)) = ".json"
    /\ \/ ~inputFile.valid
       \/ "items" \notin DOMAIN inputFile.data.v

\* C9: the output file is opened only after the reader has returned: when
\* the reader raises (the input cannot be opened, is not valid JSON, or has
\* no "items"), the run ends with the output file neither created nor
\* modified and nothing printed.
C9_OutputOnlyAfterReader ==
    /\ Did("open output") =>
          /\ io[1] = "open input"
          /\ pc \in {"writing", "done", "raised"}
          /\ pc = "raised" => error = "OSError: output"
    /\ ~UntouchedOutput => InWriter
    /\ (pc = "raised" /\ error # "OSError: output") =>
          UntouchedOutput /\ ~Did("open output") /\ ~Did("print")
    /\ ReaderMustRaise =>
          UntouchedOutput /\ ~Did("open output") /\ ~Did("print")
    /\ Did("print") => pc = "done"

\* a JSON document without "items", an older file at the output path
C9_Witness ==
    /\ pc = "raised"
    /\ error = "KeyError: 'items'"
    /\ outFile = OldFile
    /\ io = <<"open input">>

====
